---- MODULE Spec2Model ----
(***************************************************************************)
(* coursebuilder/models/models.py: MemcacheManager (a facade over the      *)
(* memcache service, switched by GCB_IS_MEMCACHE_ENABLED and instrumented  *)
(* by four PerfCounters) and Student (a datastore entity whose put and     *)
(* delete write through to memcache and whose                              *)
(* get_enrolled_student_by_email reads through it).                        *)
(*                                                                         *)
(* A request handler is a caller.  A caller's operation is cut at its      *)
(* calls to the datastore and to MemcacheManager: each such call is one    *)
(* atomic step, and the steps of different callers interleave freely.      *)
(***************************************************************************)
EXTENDS Integers, Sequences, FiniteSets, TLC

\* ---------------------------------------------------------------- bounds

\* The cache traffic of a run: no call starts unless the four counters' sum,
\* with the increments the calls in progress and the new call may still make,
\* stays within it.
MaxTraffic == 4

\* ---------------------------------------------------------------- values

\* Python's None.
None == [kind |-> "None"]

\* The memcache service's "no entry under this key" (never a Python value).
Absent == [kind |-> "Absent"]

\* A str value, as a caller of MemcacheManager.set may store one.
Str(s) == [kind |-> "str", s |-> s]

\* unicode.encode('utf8') on a sequence of code points below 2048.
RECURSIVE Utf8Encode(_)
Utf8Encode(u) ==
    IF u = <<>> THEN <<>>
    ELSE LET cp == Head(u) IN
         (IF cp < 128 THEN <<cp>>
          ELSE <<192 + (cp \div 64), 128 + (cp % 64)>>) \o Utf8Encode(Tail(u))

\* str.decode('utf-8') on the bytes Utf8Encode produces: what Key.name() returns
\* for a key whose name was stored encoded.
RECURSIVE Utf8Decode(_)
Utf8Decode(b) ==
    IF b = <<>> THEN <<>>
    ELSE IF Head(b) < 128 THEN <<Head(b)>> \o Utf8Decode(Tail(b))
    ELSE <<(Head(b) - 192) * 64 + (b[2] - 128)>> \o Utf8Decode(Tail(Tail(b)))

\* The e-mail addresses of the model, as unicode strings: "a" and "é".
Emails == {<<97>>, <<233>>}

\* The datastore's key names: e-mail addresses as get_by_email encodes them.
KeyNames == {Utf8Encode(e) : e \in Emails}

\* A Student entity: its key name and the two properties the code reads or
\* writes (name, is_enrolled).
Student(key_name, name, is_enrolled) ==
    [kind |-> "Student", key_name |-> key_name, name |-> name,
     is_enrolled |-> is_enrolled]

\* The e-mail address callers contend for, and the two entities put under it.
Contended == <<97>>
ContendedStudents ==
    {Student(Utf8Encode(Contended), "Ann", TRUE),
     Student(Utf8Encode(Contended), "Bob", FALSE)}

\* The entities handlers put: those two, and one under "é".
Students == ContendedStudents \cup {Student(Utf8Encode(<<233>>), "Ann", TRUE)}

\* self.key().name()
KeyName(student) == Utf8Decode(student.key_name)

\* The values a direct caller of MemcacheManager.set stores.
Values == {None, Str(""), Str("x")}

\* Python truth value: `if value:`, `if not student:`.
Truthy(v) ==
    CASE v.kind = "None" -> FALSE
      [] v.kind = "str" -> v.s # ""
      [] OTHER -> TRUE

\* The callers (request handlers) of the model.
Callers == {"c1", "c2"}

\* users.get_current_user(): None, or a user with an e-mail address.
User(email) == [kind |-> "User", email |-> email]
Users == {None} \cup {User(e) : e \in Emails}

\* The db.Key a successful put returns.
Key(student) == [kind |-> "Key", name |-> student.key_name]

\* ----------------------------------------------------------------- state

VARIABLES
    datastore,      \* key name -> the stored Student, or None
    memcache,       \* memcache key -> the stored value, or Absent
    enabled,        \* GCB_IS_MEMCACHE_ENABLED.value
    CACHE_PUT, CACHE_HIT, CACHE_MISS, CACHE_DELETE,   \* the PerfCounters' values
    cacheUp,        \* whether the memcache service answers
    storeUp,        \* whether the datastore answers
    pc,             \* caller -> where it is in its operation ("idle": in none)
    frame,          \* caller -> the locals of its operation in progress
    hist,           \* the last two completed calls, oldest first
    deleted,        \* e-mails whose Student.delete completed with no put,
                    \* and no change of the enable flag, since
    written,        \* key name -> the Students ever written to the datastore
    track           \* whether `written` is kept (it is where a property reads it)

counters == <<CACHE_PUT, CACHE_HIT, CACHE_MISS, CACHE_DELETE>>
vars == <<datastore, memcache, enabled, CACHE_PUT, CACHE_HIT, CACHE_MISS,
          CACHE_DELETE, cacheUp, storeUp, pc, frame, hist, deleted, written,
          track>>

\* ------------------------------------------------- the memcache service

\* memcache.get(key): the stored value; None when there is none, and None when
\* the service fails (the client reports a failed call as a miss).
memcache_get(key) ==
    IF cacheUp /\ memcache[key] # Absent THEN memcache[key] ELSE None

\* memcache.set(key, value, time): the new contents; a failed call stores
\* nothing (the client returns False).
memcache_set(key, value) ==
    IF cacheUp THEN [memcache EXCEPT ![key] = value] ELSE memcache

\* memcache.delete(key): the new contents; deleting a missing key, or a failed
\* call, changes nothing (the client returns a status code).
memcache_delete(key) ==
    IF cacheUp THEN [memcache EXCEPT ![key] = Absent] ELSE memcache

\* ------------------------------------------------------ MemcacheManager

\* MemcacheManager.get returning None on its miss branch.
MemcacheManager_get_NoneOnMiss(key) ==
    IF enabled
    THEN LET value == memcache_get(key) IN
         [ret |-> IF Truthy(value) THEN value ELSE None,
          CACHE_HIT |-> IF Truthy(value) THEN CACHE_HIT + 1 ELSE CACHE_HIT,
          CACHE_MISS |-> IF Truthy(value) THEN CACHE_MISS ELSE CACHE_MISS + 1,
          exc |-> ""]
    ELSE [ret |-> None, CACHE_HIT |-> CACHE_HIT, CACHE_MISS |-> CACHE_MISS,
          exc |-> ""]

\* MemcacheManager.get without the test of the enable flag.
MemcacheManager_get_AlwaysOn(key) ==
    LET value == memcache_get(key) IN
    [ret |-> value,
     CACHE_HIT |-> IF Truthy(value) THEN CACHE_HIT + 1 ELSE CACHE_HIT,
     CACHE_MISS |-> IF Truthy(value) THEN CACHE_MISS ELSE CACHE_MISS + 1,
     exc |-> ""]

\* MemcacheManager.get without its `return value`.
MemcacheManager_get_NoReturn(key) ==
    IF enabled
    THEN LET value == memcache_get(key) IN
         [ret |-> None,
          CACHE_HIT |-> IF Truthy(value) THEN CACHE_HIT + 1 ELSE CACHE_HIT,
          CACHE_MISS |-> IF Truthy(value) THEN CACHE_MISS ELSE CACHE_MISS + 1,
          exc |-> ""]
    ELSE [ret |-> None, CACHE_HIT |-> CACHE_HIT, CACHE_MISS |-> CACHE_MISS,
          exc |-> ""]

\* MemcacheManager.get(key): the returned value, the counters after, and the
\* exception raised ("": none).
MemcacheManager_get(key) ==
    IF enabled
    THEN LET value == memcache_get(key) IN
         [ret |-> value,
          CACHE_HIT |-> IF Truthy(value) THEN CACHE_HIT + 1 ELSE CACHE_HIT,
          CACHE_MISS |-> IF Truthy(value) THEN CACHE_MISS ELSE CACHE_MISS + 1,
          exc |-> ""]
    ELSE [ret |-> None, CACHE_HIT |-> CACHE_HIT, CACHE_MISS |-> CACHE_MISS,
          exc |-> ""]

\* MemcacheManager.set that raises when memcache.set reports a failure.
MemcacheManager_set_Strict(key, value) ==
    IF enabled
    THEN [memcache |-> memcache_set(key, value), CACHE_PUT |-> CACHE_PUT + 1,
          exc |-> IF cacheUp THEN "" ELSE "MemcacheError"]
    ELSE [memcache |-> memcache, CACHE_PUT |-> CACHE_PUT, exc |-> ""]

\* MemcacheManager.set without the test of the enable flag.
MemcacheManager_set_AlwaysOn(key, value) ==
    [memcache |-> memcache_set(key, value), CACHE_PUT |-> CACHE_PUT + 1,
     exc |-> ""]

\* MemcacheManager.set(key, value): the cache contents and CACHE_PUT after, and
\* the exception raised.
MemcacheManager_set(key, value) ==
    IF enabled
    THEN [memcache |-> memcache_set(key, value), CACHE_PUT |-> CACHE_PUT + 1,
          exc |-> ""]
    ELSE [memcache |-> memcache, CACHE_PUT |-> CACHE_PUT, exc |-> ""]

\* MemcacheManager.delete that counts and does not call memcache.delete.
MemcacheManager_delete_CountOnly(key) ==
    IF enabled
    THEN [memcache |-> memcache, CACHE_DELETE |-> CACHE_DELETE + 1, exc |-> ""]
    ELSE [memcache |-> memcache, CACHE_DELETE |-> CACHE_DELETE, exc |-> ""]

\* MemcacheManager.delete without CACHE_DELETE.inc().
MemcacheManager_delete_NoCount(key) ==
    IF enabled
    THEN [memcache |-> memcache_delete(key), CACHE_DELETE |-> CACHE_DELETE,
          exc |-> ""]
    ELSE [memcache |-> memcache, CACHE_DELETE |-> CACHE_DELETE, exc |-> ""]

\* MemcacheManager.delete(key): the cache contents and CACHE_DELETE after, and
\* the exception raised.
MemcacheManager_delete(key) ==
    IF enabled
    THEN [memcache |-> memcache_delete(key), CACHE_DELETE |-> CACHE_DELETE + 1,
          exc |-> ""]
    ELSE [memcache |-> memcache, CACHE_DELETE |-> CACHE_DELETE, exc |-> ""]

\* -------------------------------------------------------------- records

\* A completed call, as hist keeps it: the operation, its caller, the e-mail
\* (or memcache key) it was about, its argument, what it returned, the
\* exception it raised ("" for none), the enable flag when it ended, and
\* whether the e-mail was in `deleted` throughout the call.
Call(op, c, email, arg, ret, exc, afterDelete) ==
    [op |-> op, c |-> c, email |-> email, arg |-> arg, ret |-> ret, exc |-> exc,
     en |-> enabled, afterDelete |-> afterDelete]

NoCall == [op |-> "", c |-> "", email |-> <<>>, arg |-> None, ret |-> None,
           exc |-> "", en |-> FALSE, afterDelete |-> FALSE]

Record(call) == <<hist[2], call>>

\* The locals of an operation in progress: the operation, self (put, delete),
\* email and student (get_enrolled_student_by_email), the counter increments
\* it may make, whether the e-mail was in `deleted` when it started, and
\* whether the enable flag changed since it started.
NoFrame == [op |-> "", self |-> None, email |-> <<>>, student |-> None,
            need |-> 0, afterDelete |-> FALSE, flagChanged |-> FALSE]

Traffic == CACHE_PUT + CACHE_HIT + CACHE_MISS + CACHE_DELETE

Reserved == frame["c1"].need + frame["c2"].need

\* A caller not in an operation may start one that makes up to `need`
\* counter increments.
CanCall(c, need) ==
    /\ pc[c] = "idle"
    /\ Traffic + Reserved + need <= MaxTraffic

\* The caller's operation ends: it returns or raises.
Return(c, call) ==
    /\ pc' = [pc EXCEPT ![c] = "idle"]
    /\ frame' = [frame EXCEPT ![c] = NoFrame]
    /\ hist' = Record(call)

\* ----------------------------------------------------------------- Init

\* The state all specifications start from, but for `track`.
Start ==
    /\ datastore = [k \in KeyNames |-> None]
    /\ memcache = [e \in Emails |-> Absent]
    /\ enabled \in BOOLEAN
    /\ CACHE_PUT = 0 /\ CACHE_HIT = 0 /\ CACHE_MISS = 0 /\ CACHE_DELETE = 0
    /\ cacheUp = TRUE
    /\ storeUp = TRUE
    /\ pc = [c \in Callers |-> "idle"]
    /\ frame = [c \in Callers |-> NoFrame]
    /\ hist = <<NoCall, NoCall>>
    /\ deleted = {}
    /\ written = [k \in KeyNames |-> {}]

Init == Start /\ track = FALSE

\* ------------------------------------------------------- the enable flag

\* An administrator overrides GCB_IS_MEMCACHE_ENABLED.
SetEnabled(b) ==
    /\ enabled # b
    /\ enabled' = b
    /\ deleted' = {}
    /\ frame' = [c \in Callers |->
                   [frame[c] EXCEPT !.flagChanged = (pc[c] # "idle")]]
    /\ hist' = Record([NoCall EXCEPT !.op = "set_enabled", !.en = b])
    /\ UNCHANGED <<datastore, memcache, counters, cacheUp, storeUp, pc, written, track>>

\* --------------------------------------- direct calls of MemcacheManager

CallGet(c, key) ==
    /\ CanCall(c, 1)
    /\ LET r == MemcacheManager_get(key) IN
       /\ CACHE_HIT' = r.CACHE_HIT
       /\ CACHE_MISS' = r.CACHE_MISS
       /\ hist' = Record(Call("MemcacheManager.get", c, key, None, r.ret, r.exc, FALSE))
    /\ UNCHANGED <<datastore, memcache, enabled, CACHE_PUT, CACHE_DELETE,
                   cacheUp, storeUp, pc, frame, deleted, written, track>>

CallSet(c, key, value) ==
    /\ CanCall(c, 1)
    /\ LET r == MemcacheManager_set(key, value) IN
       /\ memcache' = r.memcache
       /\ CACHE_PUT' = r.CACHE_PUT
       /\ hist' = Record(Call("MemcacheManager.set", c, key, value, None, r.exc, FALSE))
    /\ UNCHANGED <<datastore, enabled, CACHE_HIT, CACHE_MISS, CACHE_DELETE,
                   cacheUp, storeUp, pc, frame, deleted, written, track>>

CallDelete(c, key) ==
    /\ CanCall(c, 1)
    /\ LET r == MemcacheManager_delete(key) IN
       /\ memcache' = r.memcache
       /\ CACHE_DELETE' = r.CACHE_DELETE
       /\ hist' = Record(Call("MemcacheManager.delete", c, key, None, None, r.exc, FALSE))
    /\ UNCHANGED <<datastore, enabled, CACHE_PUT, CACHE_HIT, CACHE_MISS,
                   cacheUp, storeUp, pc, frame, deleted, written, track>>

\* ---------------------------------------------------------------- Student

\* Student.get_by_email reading through the cache as
\* get_enrolled_student_by_email does.
get_by_email_Cached(email) ==
    IF Truthy(MemcacheManager_get(email).ret)
    THEN MemcacheManager_get(email).ret
    ELSE datastore[Utf8Encode(email)]

\* Student.get_by_email(email): the entity stored under the encoded e-mail.
get_by_email(email) == datastore[Utf8Encode(email)]

\* get_enrolled_student_by_email without the test of is_enrolled.
EnrolledOnly_NoFilter(student) ==
    IF ~Truthy(student) THEN [ret |-> None, exc |-> ""]
    ELSE [ret |-> student, exc |-> ""]

\* The end of get_enrolled_student_by_email: the student if there is one and
\* it is enrolled, else None; a true value that is no Student has no
\* is_enrolled attribute.
EnrolledOnly(student) ==
    IF ~Truthy(student) THEN [ret |-> None, exc |-> ""]
    ELSE IF student.kind # "Student" THEN [ret |-> None, exc |-> "AttributeError"]
    ELSE IF student.is_enrolled THEN [ret |-> student, exc |-> ""]
    ELSE [ret |-> None, exc |-> ""]

\* Student.put with its two statements in the other order.
Student_put_CacheFirst == <<"MemcacheManager.set", "super.put">>

\* Student.put without its second statement.
Student_put_NoCache == <<"super.put", "super.put">>

\* Student.put without the call of super.put().
Student_put_CacheOnly == <<"MemcacheManager.set", "MemcacheManager.set">>

\* The two statements of Student.put, in order.
Student_put == <<"super.put", "MemcacheManager.set">>

\* What a put returns to the handler: Student.put returns the key, and
\* rename_current and set_enrollment_status_for_current return nothing.
PutResult(op, self) == IF op = "Student.put" THEN Key(self) ELSE None

\* Statement i of Student.put(self), run for operation op of caller c.
PutStmt(c, op, self, i) ==
    LET after == IF i = 1
                 THEN /\ pc' = [pc EXCEPT ![c] = "put_2"]
                      /\ frame' = [frame EXCEPT ![c] =
                             [NoFrame EXCEPT !.op = op, !.self = self, !.need = 1]]
                      /\ UNCHANGED hist
                 ELSE Return(c, Call(op, c, KeyName(self), self,
                                     PutResult(op, self), "", FALSE))
        raise(exc) == Return(c, Call(op, c, KeyName(self), self, None, exc, FALSE))
    IN
    IF Student_put[i] = "super.put"
    THEN IF storeUp
         THEN /\ datastore' = [datastore EXCEPT ![self.key_name] = self]
              /\ written' = IF track
                            THEN [written EXCEPT ![self.key_name] = @ \cup {self}]
                            ELSE written
              /\ deleted' = deleted \ {KeyName(self)}
              /\ after
              /\ UNCHANGED <<memcache, CACHE_PUT>>
         ELSE /\ raise("DatastoreError")
              /\ UNCHANGED <<datastore, written, deleted, memcache, CACHE_PUT>>
    ELSE LET r == MemcacheManager_set(KeyName(self), self) IN
         /\ memcache' = r.memcache
         /\ CACHE_PUT' = r.CACHE_PUT
         /\ IF r.exc = "" THEN after ELSE raise(r.exc)
         /\ UNCHANGED <<datastore, written, deleted>>

\* Student.put(self), called by a handler: its first statement.
Put(c, self) ==
    /\ CanCall(c, 1)
    /\ PutStmt(c, "Student.put", self, 1)
    /\ UNCHANGED <<enabled, CACHE_HIT, CACHE_MISS, CACHE_DELETE, cacheUp,
                   storeUp, track>>

\* The first statement of the put that ends rename_current and
\* set_enrollment_status_for_current.
PutFirst(c) ==
    /\ pc[c] = "put_1"
    /\ PutStmt(c, frame[c].op, frame[c].self, 1)
    /\ UNCHANGED <<enabled, CACHE_HIT, CACHE_MISS, CACHE_DELETE, cacheUp,
                   storeUp, track>>

\* The second statement of a put, and its return.
PutSecond(c) ==
    /\ pc[c] = "put_2"
    /\ PutStmt(c, frame[c].op, frame[c].self, 2)
    /\ UNCHANGED <<enabled, CACHE_HIT, CACHE_MISS, CACHE_DELETE, cacheUp,
                   storeUp, track>>

\* Student.delete with its two statements in the other order.
Student_delete_CacheFirst == <<"MemcacheManager.delete", "super.delete">>

\* Student.delete without its second statement.
Student_delete_NoCache == <<"super.delete", "super.delete">>

\* The two statements of Student.delete, in order.
Student_delete == <<"super.delete", "MemcacheManager.delete">>

\* Statement i of Student.delete(self), self being the entity of `email`, run
\* for caller c.
DeleteStmt(c, email, i) ==
    LET after(exc) ==
            IF i = 1 /\ exc = ""
            THEN /\ pc' = [pc EXCEPT ![c] = "delete_2"]
                 /\ frame' = [frame EXCEPT ![c] =
                                [NoFrame EXCEPT !.op = "Student.delete",
                                                !.email = email, !.need = 1]]
                 /\ UNCHANGED <<hist, deleted>>
            ELSE /\ Return(c, Call("Student.delete", c, email, None, None, exc,
                                   FALSE))
                 /\ deleted' = IF frame[c].flagChanged \/ exc # "" THEN deleted
                               ELSE deleted \cup {email}
    IN
    IF Student_delete[i] = "super.delete"
    THEN /\ datastore' = IF storeUp
                         THEN [datastore EXCEPT ![Utf8Encode(email)] = None]
                         ELSE datastore
         /\ after(IF storeUp THEN "" ELSE "DatastoreError")
         /\ UNCHANGED <<memcache, CACHE_DELETE>>
    ELSE LET r == MemcacheManager_delete(email) IN
         /\ memcache' = r.memcache
         /\ CACHE_DELETE' = r.CACHE_DELETE
         /\ after(r.exc)
         /\ UNCHANGED datastore

\* Student.delete(self), called by a handler: its first statement.
Delete(c, key_name) ==
    /\ CanCall(c, 1)
    /\ DeleteStmt(c, Utf8Decode(key_name), 1)
    /\ UNCHANGED <<enabled, CACHE_PUT, CACHE_HIT, CACHE_MISS, cacheUp, storeUp,
                   written, track>>

\* The second statement of Student.delete, and its return.
DeleteSecond(c) ==
    /\ pc[c] = "delete_2"
    /\ DeleteStmt(c, frame[c].email, 2)
    /\ UNCHANGED <<enabled, CACHE_PUT, CACHE_HIT, CACHE_MISS, cacheUp, storeUp,
                   written, track>>

\* Student.get_by_email(email), called by a handler.
GetByEmail(c, email) ==
    /\ CanCall(c, 0)
    /\ Return(c, IF storeUp
                 THEN Call("Student.get_by_email", c, email, None,
                           get_by_email(email), "", email \in deleted)
                 ELSE Call("Student.get_by_email", c, email, None, None,
                           "DatastoreError", email \in deleted))
    /\ UNCHANGED <<datastore, memcache, enabled, counters, cacheUp, storeUp,
                   deleted, written, track>>

\* The return of get_enrolled_student_by_email with `student` in hand.
ReturnEnrolled(c, email, student, afterDelete) ==
    LET r == EnrolledOnly(student) IN
    Return(c, Call("Student.get_enrolled_student_by_email", c, email, None,
                   r.ret, r.exc, afterDelete /\ email \in deleted))

\* get_enrolled_student_by_email(email): student = MemcacheManager.get(email),
\* and the return when that is a hit.
GetEnrolled(c, email) ==
    /\ CanCall(c, 2)
    /\ LET r == MemcacheManager_get(email) IN
       /\ CACHE_HIT' = r.CACHE_HIT
       /\ CACHE_MISS' = r.CACHE_MISS
       /\ IF r.exc # ""
          THEN Return(c, Call("Student.get_enrolled_student_by_email", c, email,
                              None, None, r.exc, FALSE))
          ELSE IF Truthy(r.ret)
          THEN ReturnEnrolled(c, email, r.ret, email \in deleted)
          ELSE /\ pc' = [pc EXCEPT ![c] = "get_enrolled_db"]
               /\ frame' = [frame EXCEPT ![c] =
                              [NoFrame EXCEPT
                                 !.op = "Student.get_enrolled_student_by_email",
                                 !.email = email, !.need = 1,
                                 !.afterDelete = email \in deleted]]
               /\ UNCHANGED hist
    /\ UNCHANGED <<datastore, memcache, enabled, CACHE_PUT, CACHE_DELETE,
                   cacheUp, storeUp, deleted, written, track>>

\* get_enrolled_student_by_email: student = Student.get_by_email(email).
GetEnrolledDb(c) ==
    /\ pc[c] = "get_enrolled_db"
    /\ IF storeUp
       THEN /\ pc' = [pc EXCEPT ![c] = "get_enrolled_set"]
            /\ frame' = [frame EXCEPT ![c].student = get_by_email(frame[c].email)]
            /\ UNCHANGED hist
       ELSE Return(c, Call(frame[c].op, c, frame[c].email, None, None,
                           "DatastoreError", FALSE))
    /\ UNCHANGED <<datastore, memcache, enabled, counters, cacheUp, storeUp,
                   deleted, written, track>>

\* get_enrolled_student_by_email: MemcacheManager.set(email, student), and the
\* return.
GetEnrolledSet(c) ==
    /\ pc[c] = "get_enrolled_set"
    /\ LET r == MemcacheManager_set(frame[c].email, frame[c].student) IN
       /\ memcache' = r.memcache
       /\ CACHE_PUT' = r.CACHE_PUT
       /\ IF r.exc # ""
          THEN Return(c, Call(frame[c].op, c, frame[c].email, None, None, r.exc,
                              FALSE))
          ELSE ReturnEnrolled(c, frame[c].email, frame[c].student,
                              frame[c].afterDelete)
    /\ UNCHANGED <<datastore, enabled, CACHE_HIT, CACHE_MISS, CACHE_DELETE,
                   cacheUp, storeUp, deleted, written, track>>

\* The operations on the current user without their check of the user.
RequireUser_Never(user) == ""

\* `if not user: raise Exception('No current user.')`: the exception raised
\* ("": none).
RequireUser(user) == IF ~Truthy(user) THEN "No current user." ELSE ""

\* The start of rename_current and set_enrollment_status_for_current, up to
\* the put of `student`: the user check, the lookup
\* student = Student.get_by_email(user.email()) and the assignment of `value`
\* to its property `field` (which None does not have).
UpdateCurrent(c, op, user, arg, field, value) ==
    LET email == IF user = None THEN <<>> ELSE user.email
        raise(exc) == Return(c, Call(op, c, email, arg, None, exc, FALSE))
    IN
    IF RequireUser(user) # "" THEN raise(RequireUser(user))
    ELSE IF user = None THEN raise("AttributeError")
    ELSE IF ~storeUp THEN raise("DatastoreError")
    ELSE IF get_by_email(email) = None THEN raise("AttributeError")
    ELSE /\ pc' = [pc EXCEPT ![c] = "put_1"]
         /\ frame' = [frame EXCEPT ![c] =
                        [NoFrame EXCEPT !.op = op, !.need = 1,
                                        !.self = [get_by_email(email)
                                                    EXCEPT ![field] = value]]]
         /\ UNCHANGED hist

\* Student.rename_current(new_name), up to its put.
Rename(c, user, new_name) ==
    /\ CanCall(c, 1)
    /\ IF RequireUser(user) = "" /\ ~Truthy(new_name)
       THEN Return(c, Call("Student.rename_current", c,
                           IF user = None THEN <<>> ELSE user.email, new_name,
                           None, "", FALSE))
       ELSE UpdateCurrent(c, "Student.rename_current", user, new_name, "name",
                          new_name.s)
    /\ UNCHANGED <<datastore, memcache, enabled, counters, cacheUp, storeUp,
                   deleted, written, track>>

\* Student.set_enrollment_status_for_current(is_enrolled), up to its put.
SetEnrollment(c, user, is_enrolled) ==
    /\ CanCall(c, 1)
    /\ UpdateCurrent(c, "Student.set_enrollment_status_for_current", user,
                     [kind |-> "bool", b |-> is_enrolled], "is_enrolled",
                     is_enrolled)
    /\ UNCHANGED <<datastore, memcache, enabled, counters, cacheUp, storeUp,
                   deleted, written, track>>

\* ---------------------------------------------------------- environment

\* The handler's process dies inside an operation: the rest of it never runs.
Crash(c) ==
    /\ pc[c] # "idle"
    /\ Return(c, Call(frame[c].op, c, <<>>, None, None, "crash", FALSE))
    /\ UNCHANGED <<datastore, memcache, enabled, counters, cacheUp, storeUp,
                   deleted, written, track>>

\* The memcache service goes down or comes back.
CacheFlip ==
    /\ cacheUp' = ~cacheUp
    /\ UNCHANGED <<datastore, memcache, enabled, counters, storeUp, pc, frame,
                   hist, deleted, written, track>>

\* The datastore goes down or comes back.
StoreFlip ==
    /\ storeUp' = ~storeUp
    /\ UNCHANGED <<datastore, memcache, enabled, counters, cacheUp, pc, frame,
                   hist, deleted, written, track>>

\* The memcache service drops the entry under a key, as it may at any time
\* before the entry's time to live is over.
Evict(key) ==
    /\ memcache[key] # Absent
    /\ memcache' = [memcache EXCEPT ![key] = Absent]
    /\ UNCHANGED <<datastore, enabled, counters, cacheUp, storeUp, pc, frame,
                   hist, deleted, written, track>>

\* ------------------------------------------------------- specifications

\* The new names handlers pass to rename_current: one of them empty.
NewNames == {Str(""), Str("Ann"), Str("Bob")}

\* MemcacheManager alone: its three operations called directly, and the flag.
NextCache ==
    \/ \E b \in BOOLEAN : SetEnabled(b)
    \/ \E key \in Emails : CallGet("c1", key)
    \/ \E key \in Emails, value \in Values : CallSet("c1", key, value)
    \/ \E key \in Emails : CallDelete("c1", key)

SpecCache == Init /\ [][NextCache]_vars

\* The steps of put, delete, get_by_email and get_enrolled_student_by_email,
\* for caller c.
RecordStep(c) ==
    \/ \E self \in Students : Put(c, self)
    \/ PutSecond(c)
    \/ \E k \in KeyNames : Delete(c, k)
    \/ DeleteSecond(c)
    \/ \E email \in Emails : GetByEmail(c, email)
    \/ \E email \in Emails : GetEnrolled(c, email)
    \/ GetEnrolledDb(c)
    \/ GetEnrolledSet(c)

\* The steps of rename_current and set_enrollment_status_for_current, for
\* caller c.
CurrentUserStep(c) ==
    \/ \E user \in Users, new_name \in NewNames : Rename(c, user, new_name)
    \/ \E user \in Users, is_enrolled \in BOOLEAN :
           SetEnrollment(c, user, is_enrolled)
    \/ PutFirst(c)
    \/ PutSecond(c)

\* One caller: the record operations in sequence, and the flag.
Next ==
    \/ \E b \in BOOLEAN : SetEnabled(b)
    \/ RecordStep("c1")

Spec == Init /\ [][Next]_vars

\* One caller: the operations on the current user's record, after puts.
NextUser ==
    \/ \E self \in Students : Put("c1", self)
    \/ CurrentUserStep("c1")

SpecUser == Init /\ [][NextUser]_vars

\* Two callers interleaved on one e-mail address, any of which may die inside
\* an operation; the datastore writes are kept in `written`.
NextConc ==
    \E c \in Callers :
        \/ \E self \in ContendedStudents : Put(c, self)
        \/ PutSecond(c)
        \/ Delete(c, Utf8Encode(Contended))
        \/ DeleteSecond(c)
        \/ GetEnrolled(c, Contended)
        \/ GetEnrolledDb(c)
        \/ GetEnrolledSet(c)
        \/ Crash(c)

InitConc == Start /\ track = TRUE

SpecConc == InitConc /\ [][NextConc]_vars

\* The steps of one caller's operations on the contended e-mail address:
\* put, delete, get_enrolled_student_by_email, and MemcacheManager directly.
ContendedStep(c) ==
    \/ \E self \in ContendedStudents : Put(c, self)
    \/ PutSecond(c)
    \/ Delete(c, Utf8Encode(Contended))
    \/ DeleteSecond(c)
    \/ GetEnrolled(c, Contended)
    \/ GetEnrolledDb(c)
    \/ GetEnrolledSet(c)
    \/ CallGet(c, Contended)
    \/ \E value \in ContendedStudents \cup {None} : CallSet(c, Contended, value)
    \/ CallDelete(c, Contended)

\* One caller, with the memcache service and the datastore failing and
\* recovering at any time.
NextFault ==
    \/ CacheFlip
    \/ StoreFlip
    \/ ContendedStep("c1")

SpecFault == Init /\ [][NextFault]_vars

\* The steps of put, delete and get_enrolled_student_by_email on the
\* contended e-mail address, for caller c.
ContendedRecordStep(c) ==
    \/ \E self \in ContendedStudents : Put(c, self)
    \/ PutSecond(c)
    \/ Delete(c, Utf8Encode(Contended))
    \/ DeleteSecond(c)
    \/ GetEnrolled(c, Contended)
    \/ GetEnrolledDb(c)
    \/ GetEnrolledSet(c)

\* Two callers interleaved on one e-mail address, each running its operations
\* to their end; the datastore writes are kept in `written`.
NextPair == \E c \in Callers : ContendedRecordStep(c)

SpecPair == InitConc /\ [][NextPair]_vars

\* A reader and a writer interleaved on one e-mail address: c1 calls
\* get_enrolled_student_by_email while c2 puts and deletes.
NextRace ==
    \/ GetEnrolled("c1", Contended)
    \/ GetEnrolledDb("c1")
    \/ GetEnrolledSet("c1")
    \/ \E self \in ContendedStudents : Put("c2", self)
    \/ PutSecond("c2")
    \/ Delete("c2", Utf8Encode(Contended))
    \/ DeleteSecond("c2")

SpecRace == Init /\ [][NextRace]_vars

\* One caller with the enable flag held at its initial value, and the memcache
\* service dropping entries at any time.
NextEvict ==
    \/ \E key \in Emails : Evict(key)
    \/ RecordStep("c1")

SpecEvict == Init /\ [][NextEvict]_vars

\* The steps of rename_current and set_enrollment_status_for_current for the
\* user of the contended e-mail address, for caller c.
ContendedUserStep(c) ==
    \/ \E new_name \in NewNames : Rename(c, User(Contended), new_name)
    \/ \E is_enrolled \in BOOLEAN : SetEnrollment(c, User(Contended), is_enrolled)
    \/ PutFirst(c)
    \/ PutSecond(c)

\* Two callers interleaved on the record of one current user, which a put
\* stores first.
NextUserConc ==
    \/ \E self \in ContendedStudents : Put("c1", self)
    \/ \E c \in Callers : ContendedUserStep(c)

SpecUserConc == Init /\ [][NextUserConc]_vars

\* ------------------------------------------------- MemcacheManager claims

\* C1: with caching enabled, MemcacheManager.set(K, V) followed immediately
\* by MemcacheManager.get(K) returns V, for every key K and value V.
C1_SetThenGet ==
    (/\ hist[1].op = "MemcacheManager.set" /\ hist[1].en
     /\ hist[2].op = "MemcacheManager.get" /\ hist[2].en
     /\ hist[2].email = hist[1].email)
        => hist[2].ret = hist[1].arg

\* A get that returned the "x" the set just before it stored under the key.
C1_Witness ==
    /\ hist[1].op = "MemcacheManager.set" /\ hist[1].en
    /\ hist[2].op = "MemcacheManager.get" /\ hist[2].en
    /\ hist[2].email = hist[1].email
    /\ hist[1].arg = Str("x")
    /\ hist[2].ret = Str("x")

\* C6: while caching is disabled, MemcacheManager.get(K) returns None for
\* every key, whatever was set before, and changes no counter and not the
\* cache.
C6_DisabledGet ==
    [][\A key \in Emails :
          (~enabled /\ CallGet("c1", key))
              => (hist'[2].ret = None /\ UNCHANGED <<counters, memcache>>)]_vars

\* A disabled get that returned None for a key the cache holds "x" under,
\* right after a disabled set.
C6_Witness ==
    /\ hist[1].op = "MemcacheManager.set" /\ ~hist[1].en
    /\ hist[2].op = "MemcacheManager.get" /\ ~hist[2].en
    /\ hist[2].ret = None
    /\ memcache[hist[2].email] = Str("x")

\* C7: while caching is disabled, MemcacheManager.set and .delete change
\* neither the cache nor a counter; while it is enabled, set replaces the
\* key's entry, whatever it was, and delete leaves the key absent without an
\* error, also when it already was.
C7_SetDelete ==
    [][\A key \in Emails :
          /\ \A value \in Values :
                CallSet("c1", key, value) =>
                    IF enabled
                    THEN /\ memcache' = [memcache EXCEPT ![key] = value]
                         /\ hist'[2].exc = ""
                    ELSE UNCHANGED <<counters, memcache>>
          /\ CallDelete("c1", key) =>
                /\ hist'[2].exc = ""
                /\ IF enabled
                   THEN memcache' = [memcache EXCEPT ![key] = Absent]
                   ELSE UNCHANGED <<counters, memcache>>]_vars

\* An enabled set that replaced the "x" the set before it stored under the key.
C7_Witness ==
    /\ hist[1].op = "MemcacheManager.set" /\ hist[1].en
    /\ hist[2].op = "MemcacheManager.set" /\ hist[2].en
    /\ hist[2].email = hist[1].email
    /\ hist[1].arg = Str("x") /\ hist[2].arg = Str("")
    /\ memcache[hist[2].email] = Str("")

\* C11: with caching enabled, a MemcacheManager.get of a key the cache holds
\* an entry under adds one to the hit counter and nothing to the miss counter,
\* whatever the value stored, and a get of a key it holds none under adds one
\* to the miss counter and nothing to the hit counter; so N consecutive gets
\* add N.
C11_GetCounts ==
    [][\A key \in Emails :
          (enabled /\ CallGet("c1", key))
              => IF memcache[key] # Absent
                 THEN CACHE_HIT' = CACHE_HIT + 1 /\ CACHE_MISS' = CACHE_MISS
                 ELSE CACHE_MISS' = CACHE_MISS + 1 /\ CACHE_HIT' = CACHE_HIT]_vars

\* C12: no step lowers a counter; an enabled MemcacheManager.get adds one to
\* hit + miss, an enabled set one to put, an enabled delete one to delete,
\* and each leaves the other counters alone; a disabled call, and a change of
\* the flag, leave all four alone.  The counters therefore equal the numbers
\* of enabled calls made.
C12_CountersExact ==
    [][/\ CACHE_PUT' >= CACHE_PUT /\ CACHE_HIT' >= CACHE_HIT
       /\ CACHE_MISS' >= CACHE_MISS /\ CACHE_DELETE' >= CACHE_DELETE
       /\ \A key \in Emails :
             /\ CallGet("c1", key) =>
                   /\ CACHE_HIT' + CACHE_MISS'
                          = CACHE_HIT + CACHE_MISS + (IF enabled THEN 1 ELSE 0)
                   /\ UNCHANGED <<CACHE_PUT, CACHE_DELETE>>
             /\ (\E value \in Values : CallSet("c1", key, value)) =>
                   /\ CACHE_PUT' = CACHE_PUT + (IF enabled THEN 1 ELSE 0)
                   /\ UNCHANGED <<CACHE_HIT, CACHE_MISS, CACHE_DELETE>>
             /\ CallDelete("c1", key) =>
                   /\ CACHE_DELETE' = CACHE_DELETE + (IF enabled THEN 1 ELSE 0)
                   /\ UNCHANGED <<CACHE_PUT, CACHE_HIT, CACHE_MISS>>
       /\ (\E b \in BOOLEAN : SetEnabled(b)) => UNCHANGED counters]_vars

\* After an enabled set, hit and delete each counted once, a disabled delete
\* and a disabled get left the counters where they were.
C12_Witness ==
    /\ hist[1].op = "MemcacheManager.delete" /\ ~hist[1].en
    /\ hist[2].op = "MemcacheManager.get" /\ ~hist[2].en
    /\ CACHE_PUT = 1 /\ CACHE_HIT = 1 /\ CACHE_MISS = 0 /\ CACHE_DELETE = 1

\* ---------------------------------------------------------- Student claims

GetEnrolledOp == "Student.get_enrolled_student_by_email"

\* C2: for one caller with caching enabled, the get_enrolled_student_by_email
\* that follows a completed Student.put of the same key returns the record
\* put if its is_enrolled is true and None if it is false, and the cache
\* holds the record put under the key either way.
C2_PutThenGetEnrolled ==
    (/\ hist[1].op = "Student.put" /\ hist[1].exc = "" /\ hist[1].en
     /\ hist[2].op = GetEnrolledOp /\ hist[2].en
     /\ hist[2].email = hist[1].email)
        => /\ hist[2].exc = ""
           /\ hist[2].ret = IF hist[1].arg.is_enrolled THEN hist[1].arg ELSE None
           /\ memcache[hist[2].email] = hist[1].arg

\* After two enabled puts, the read of the record put last, with is_enrolled
\* false, hit the cache and returned None while the cache holds that record.
C2_Witness ==
    /\ hist[1].op = "Student.put" /\ hist[1].exc = "" /\ hist[1].en
    /\ hist[2].op = GetEnrolledOp /\ hist[2].en
    /\ hist[2].email = hist[1].email
    /\ hist[1].arg = Student(Utf8Encode(Contended), "Bob", FALSE)
    /\ hist[2].ret = None
    /\ memcache[Contended] = hist[1].arg
    /\ CACHE_PUT = 2 /\ CACHE_HIT = 1 /\ CACHE_MISS = 0

\* C3: for one caller, once Student.delete of a key has completed, with no
\* put of the key and no change of the enable flag since it started,
\* get_by_email and get_enrolled_student_by_email of the key return None, and
\* with caching enabled the cache holds no record under the key.
C3_DeleteThenGet ==
    /\ (hist[2].op \in {"Student.get_by_email", GetEnrolledOp}
            /\ hist[2].afterDelete)
           => (hist[2].exc = "" /\ hist[2].ret = None)
    /\ \A e \in deleted : enabled => memcache[e] \in {Absent, None}

\* A put, its delete, a get_by_email and then a get_enrolled_student_by_email
\* of the key, all enabled: both reads found nothing.
C3_Witness ==
    /\ hist[1].op = "Student.get_by_email" /\ hist[1].afterDelete
    /\ hist[2].op = GetEnrolledOp /\ hist[2].afterDelete /\ hist[2].en
    /\ hist[1].email = Contended /\ hist[2].email = Contended
    /\ hist[1].ret = None /\ hist[2].ret = None
    /\ CACHE_PUT = 2 /\ CACHE_DELETE = 1 /\ CACHE_MISS = 1

\* C14: the MemcacheManager.set that follows a cache miss in
\* get_enrolled_student_by_email is made only when the datastore lookup found
\* a record: it then stores the record under the key, and when the lookup
\* found none the cache and the put counter are left as they were.
C14_PopulateOnlyIfFound ==
    [][GetEnrolledSet("c1") =>
          IF frame["c1"].student # None
          THEN enabled => /\ memcache'[frame["c1"].email] = frame["c1"].student
                          /\ CACHE_PUT' = CACHE_PUT + 1
          ELSE UNCHANGED <<memcache, CACHE_PUT>>]_vars

\* C15: Student.get_by_email returns what the datastore holds under the
\* encoded e-mail, whatever the cache holds and whatever the enable flag, and
\* changes neither the cache, nor a counter, nor the datastore.
C15_GetByEmailUncached ==
    [][\A email \in Emails :
          GetByEmail("c1", email)
              => /\ hist'[2].exc = ""
                 /\ hist'[2].ret = datastore[Utf8Encode(email)]
                 /\ UNCHANGED <<datastore, memcache, counters>>]_vars

\* With caching enabled, get_by_email of "é" returned the record the
\* datastore holds under the encoded key while the cache holds none, and
\* added no miss.
C15_Witness ==
    /\ hist[2].op = "Student.get_by_email" /\ hist[2].en
    /\ hist[2].email = <<233>>
    /\ hist[2].ret = Student(<<195, 169>>, "Ann", TRUE)
    /\ memcache[<<233>>] = Absent
    /\ CACHE_HIT = 0 /\ CACHE_MISS = 0 /\ CACHE_PUT = 0

\* C17: with caching enabled, a get_enrolled_student_by_email that finds a
\* record in the cache returns there, with that record if its is_enrolled is
\* true and None otherwise, whatever the datastore holds, and changes neither
\* the datastore, nor the cache, nor the put counter.
C17_HitReturnsCached ==
    [][\A email \in Emails :
          (GetEnrolled("c1", email) /\ enabled /\ Truthy(memcache_get(email)))
              => /\ pc'["c1"] = "idle"
                 /\ hist'[2].exc = ""
                 /\ hist'[2].ret = IF memcache[email].is_enrolled
                                   THEN memcache[email] ELSE None
                 /\ CACHE_HIT' = CACHE_HIT + 1
                 /\ UNCHANGED <<datastore, memcache, CACHE_PUT, CACHE_MISS>>]_vars

\* A read returned the record the cache holds while the datastore, after a
\* delete made with caching disabled, holds none: one put, one hit.
C17_Witness ==
    /\ hist[2].op = GetEnrolledOp /\ hist[2].en
    /\ hist[2].email = Contended
    /\ hist[2].ret = Student(Utf8Encode(Contended), "Ann", TRUE)
    /\ memcache[Contended] = hist[2].ret
    /\ datastore[Utf8Encode(Contended)] = None
    /\ CACHE_PUT = 1 /\ CACHE_HIT = 1 /\ CACHE_MISS = 0

\* C20: for one caller, with the enable flag switched at any time between
\* and inside operations, a record get_enrolled_student_by_email returns is
\* the record the datastore holds under the key.
C20_ReturnsDurableRecord ==
    (/\ pc["c1"] = "idle"
     /\ hist[2].op = GetEnrolledOp
     /\ hist[2].ret # None)
        => hist[2].ret = datastore[Utf8Encode(hist[2].email)]

\* C16: for one caller with the enable flag held and the memcache service
\* dropping entries at any time, get_enrolled_student_by_email returns the
\* record the datastore holds under the key if there is one and its
\* is_enrolled is true, and None otherwise; and a dropped entry leaves the
\* datastore as it was.
C16_CacheTransparent ==
    [][/\ \A email \in Emails :
             ((GetEnrolled("c1", email) \/ GetEnrolledSet("c1"))
                  /\ pc'["c1"] = "idle" /\ hist'[2].email = email)
                 => /\ hist'[2].exc = ""
                    /\ hist'[2].ret =
                          LET student == datastore[Utf8Encode(email)] IN
                          IF student # None /\ student.is_enrolled
                          THEN student ELSE None
       /\ (\E key \in Emails : Evict(key)) => UNCHANGED datastore]_vars

\* The read that follows an enabled put of the key missed, the entry having
\* been dropped in between, and returned the record from the datastore.
C16_Witness ==
    /\ hist[1].op = "Student.put" /\ hist[1].exc = "" /\ hist[1].en
    /\ hist[2].op = GetEnrolledOp /\ hist[2].en
    /\ hist[2].email = hist[1].email
    /\ hist[2].ret = hist[1].arg
    /\ CACHE_PUT = 2 /\ CACHE_MISS = 1 /\ CACHE_HIT = 0

\* C10: rename_current and set_enrollment_status_for_current called with no
\* current user raise 'No current user.' and change neither the datastore,
\* nor the cache, nor a counter.
C10_NoCurrentUser ==
    [][((\E new_name \in NewNames : Rename("c1", None, new_name))
            \/ (\E is_enrolled \in BOOLEAN : SetEnrollment("c1", None, is_enrolled)))
          => /\ hist'[2].exc = "No current user."
             /\ pc'["c1"] = "idle"
             /\ UNCHANGED <<datastore, memcache, counters>>]_vars

\* Both operations raised for want of a user, with a record in the datastore.
C10_Witness ==
    /\ hist[1].op = "Student.set_enrollment_status_for_current"
    /\ hist[1].exc = "No current user."
    /\ hist[2].op = "Student.rename_current"
    /\ hist[2].exc = "No current user."
    /\ hist[2].arg = Str("Bob")
    /\ datastore[Utf8Encode(Contended)] = Student(Utf8Encode(Contended), "Ann", TRUE)

\* ------------------------------------------------------ interleaving claims

\* C4: when two callers have each completed a Student.put of a different
\* value for the same key, in any interleaving of their steps, the datastore
\* holds one of the two values under the key and, with caching enabled, so
\* does the cache; the two need not hold the same one.
C4_ConcurrentPut ==
    (/\ \A c \in Callers : pc[c] = "idle"
     /\ hist[1].op = "Student.put" /\ hist[1].exc = ""
     /\ hist[2].op = "Student.put" /\ hist[2].exc = ""
     /\ hist[1].c # hist[2].c
     /\ hist[1].email = hist[2].email
     /\ hist[1].arg # hist[2].arg)
        => /\ datastore[Utf8Encode(hist[2].email)] \in {hist[1].arg, hist[2].arg}
           /\ enabled => memcache[hist[2].email] \in {hist[1].arg, hist[2].arg}

\* Two interleaved puts after which the datastore holds the value of the
\* first to complete and the cache the value of the second.
C4_Witness ==
    /\ \A c \in Callers : pc[c] = "idle"
    /\ hist[1].op = "Student.put" /\ hist[1].exc = ""
    /\ hist[2].op = "Student.put" /\ hist[2].exc = ""
    /\ hist[1].c # hist[2].c
    /\ hist[1].arg # hist[2].arg
    /\ enabled
    /\ datastore[Utf8Encode(Contended)] = hist[1].arg
    /\ memcache[Contended] = hist[2].arg

\* C5: in every state, also after a caller died between the two statements
\* of a put, a record the cache holds under a key has been written to the
\* datastore under that key.
C5_CacheNeverAhead ==
    \A e \in Emails :
        memcache[e].kind = "Student" => memcache[e] \in written[Utf8Encode(e)]

\* A caller died between the two statements of a put that replaced a cached
\* record: the datastore holds the new record and the cache the old one.
C5_Witness ==
    /\ hist[2].op = "Student.put" /\ hist[2].exc = "crash"
    /\ enabled
    /\ datastore[Utf8Encode(Contended)] = Student(Utf8Encode(Contended), "Bob", FALSE)
    /\ memcache[Contended] = Student(Utf8Encode(Contended), "Ann", TRUE)

\* C13 as claimed: in every state where no operation is in progress, an
\* entry the cache holds under a key equals what the last datastore write for
\* the key left there.
C13_CacheEqualsLastWrite ==
    (\A c \in Callers : pc[c] = "idle")
        => \A e \in Emails :
              memcache[e] # Absent => memcache[e] = datastore[Utf8Encode(e)]

\* C13 as amended: in every state where no operation is in progress, an
\* entry the cache holds under a key is None or a record that some datastore
\* write for the key stored, not necessarily the last one.
C13_CacheSnapshotOfAWrite ==
    (\A c \in Callers : pc[c] = "idle")
        => \A e \in Emails :
              memcache[e] \in {Absent, None} \cup written[Utf8Encode(e)]

\* No operation is in progress, and after a delete and a read that both
\* returned the cache holds the record of an earlier write while the datastore
\* holds nothing.
C13_Witness ==
    /\ \A c \in Callers : pc[c] = "idle"
    /\ hist[1].op = "Student.delete" /\ hist[1].exc = ""
    /\ hist[2].op = GetEnrolledOp /\ hist[2].exc = ""
    /\ memcache[Contended] = Student(Utf8Encode(Contended), "Ann", TRUE)
    /\ datastore[Utf8Encode(Contended)] = None
    /\ memcache[Contended] \in written[Utf8Encode(Contended)]

\* C18: once a reader's get_enrolled_student_by_email calls and a writer's
\* puts and deletes of the same key, interleaved in any way, have all
\* completed, the cache holds under the key no entry, None, or the record the
\* datastore holds; and after a completed delete with no later put it holds
\* no record.
C18_NoStaleEntryAfterRace ==
    (\A c \in Callers : pc[c] = "idle")
        => /\ memcache[Contended]
                 \in {Absent, None, datastore[Utf8Encode(Contended)]}
           /\ Contended \in deleted => memcache[Contended].kind # "Student"

\* C19: when a rename_current with a non-empty name and a
\* set_enrollment_status_for_current of two callers, for the same user whose
\* record exists, have both completed, in any interleaving of their steps,
\* the datastore's record has the new name and the new is_enrolled.  (A
\* completed call's arg is the record it put: a rename that put one had a
\* non-empty name, which is that record's name.)
C19_BothUpdatesApply ==
    \A i \in {1, 2} :
        LET rename == hist[i]
            enroll == hist[3 - i]
        IN
        (/\ \A c \in Callers : pc[c] = "idle"
         /\ rename.op = "Student.rename_current" /\ rename.exc = ""
         /\ enroll.op = "Student.set_enrollment_status_for_current"
         /\ enroll.exc = ""
         /\ rename.c # enroll.c
         /\ rename.email = enroll.email
         /\ rename.arg.kind = "Student")
            => /\ datastore[Utf8Encode(rename.email)].name = rename.arg.name
               /\ datastore[Utf8Encode(rename.email)].is_enrolled
                     = enroll.arg.is_enrolled

\* ----------------------------------------------------------- failure claims

CacheBackedOps ==
    {"MemcacheManager.get", "MemcacheManager.set", "MemcacheManager.delete",
     "Student.put", "Student.delete", GetEnrolledOp}

\* C8: a failing memcache service fails no operation: an operation that
\* raises does so because the datastore failed; while the service is down an
\* enabled MemcacheManager.get returns None and counts a miss,
\* get_enrolled_student_by_email goes on to the datastore, and no step
\* changes the cache.
C8_CacheFailureAbsorbed ==
    [][/\ (ContendedStep("c1") /\ pc'["c1"] = "idle"
              /\ hist'[2].op \in CacheBackedOps /\ hist'[2].exc # "")
          => (hist'[2].exc = "DatastoreError" /\ ~storeUp)
       /\ (~cacheUp /\ enabled)
          => /\ memcache' = memcache
             /\ CallGet("c1", Contended)
                   => (hist'[2].ret = None /\ CACHE_MISS' = CACHE_MISS + 1)
             /\ GetEnrolled("c1", Contended) => pc'["c1"] = "get_enrolled_db"]_vars

\* An enabled put completed while the memcache service was down: the record
\* is in the datastore and not in the cache.
C8_Witness ==
    /\ hist[2].op = "Student.put" /\ hist[2].exc = "" /\ hist[2].en
    /\ ~cacheUp /\ storeUp
    /\ hist[1].op = "MemcacheManager.get" /\ hist[1].en /\ hist[1].ret = None
    /\ datastore[Utf8Encode(Contended)] = hist[2].arg
    /\ memcache[Contended] = Student(Utf8Encode(Contended), "Ann", TRUE)
    /\ hist[2].arg = Student(Utf8Encode(Contended), "Bob", FALSE)

\* C9: when the datastore fails in Student.put or Student.delete, the
\* operation ends there raising the datastore's error, and the datastore, the
\* cache and the counters are as they were before the call.
C9_StoreFailurePropagates ==
    [][(~storeUp /\ ((\E self \in ContendedStudents : Put("c1", self))
                        \/ Delete("c1", Utf8Encode(Contended))))
          => /\ hist'[2].exc = "DatastoreError"
             /\ pc'["c1"] = "idle"
             /\ UNCHANGED <<datastore, memcache, counters>>]_vars

\* A put and then a delete failed on the datastore, with caching enabled and
\* the memcache service up; the cached record is still there.
C9_Witness ==
    /\ hist[1].op = "Student.put" /\ hist[1].exc = "DatastoreError"
    /\ hist[2].op = "Student.delete" /\ hist[2].exc = "DatastoreError"
    /\ enabled /\ cacheUp
    /\ hist[1].arg = Student(Utf8Encode(Contended), "Bob", FALSE)
    /\ memcache[Contended] = Student(Utf8Encode(Contended), "Ann", TRUE)
    /\ datastore[Utf8Encode(Contended)] = Student(Utf8Encode(Contended), "Ann", TRUE)

====
